------------------------------ MODULE Spec2Model ------------------------------
(***************************************************************************)
(* Turn pipeline of the e-commerce conversational agent:                   *)
(* ask_agent -> perception_node -> tool_node -> answer_node ->             *)
(* learning_node -> add_turn, over one process-wide AgentState.            *)
(*                                                                         *)
(* A Python str is a sequence of one-character strings, so that lower(),   *)
(* strip(), the `in` substring test and f-string concatenation are         *)
(* computed and not assumed.  An Optional value is <<>> (None) or <<v>>.   *)
(***************************************************************************)
EXTENDS Integers, Sequences, FiniteSets, TLC

VARIABLES
    conversation_state, \* module global _conversation_state (Optional AgentState)
    st,                 \* the AgentState threaded through the graph by graph.invoke
    user_query,         \* ask_agent's parameter of the call in progress
    pc,                 \* position of the call in progress
    provider,           \* config INTENT_CLASSIFIER, lower-cased
    provider_resp,      \* raw response of the chat provider to the node running (Optional)
    engine,             \* module global engine: TRUE once created
    session,            \* tool_node's local session (Optional session id)
    open_sessions,      \* sessions created and not yet closed
    sessions_created,   \* number of Session objects created so far
    tool_local,         \* tool_node's local `output` (Optional str)
    dispatch_exc,       \* the exception `e` caught in tool_node this turn (Optional str)
    invoked,            \* lookup functions called in this turn, in call order
    log,                \* lines appended to LOG_FILE, as <<query, answer>>
    stages,             \* pipeline stages completed by the call in progress
    calls,              \* ask_agent calls started
    result,             \* outcome of the last finished ask_agent call
    limit,              \* the `limit` argument add_turn is called with
    turns,              \* every AgentTurn add_turn was given, in call order
    store_used,         \* what the stores answered to the lookup being called (Optional)
    other               \* a second caller of ask_agent: its position and locals

vars ==
    <<conversation_state, st, user_query, pc, provider, provider_resp, engine,
      session, open_sessions, sessions_created, tool_local, dispatch_exc,
      invoked, log, stages, calls, result, limit, turns, store_used, other>>

-----------------------------------------------------------------------------
(* Bounds of the model *)

MaxTurns ==
    3

MaxAdds ==
    4

MaxLimit ==
    3

MaxConcurrentCalls ==
    2

-----------------------------------------------------------------------------
(* Optional values *)

None ==
    <<>>

Some(v) ==
    <<v>>

Val(o) ==
    o[1]

\* Python `x or ""` for an Optional str: None and "" both give "".
OrEmpty(o) ==
    IF o = None THEN <<>> ELSE Val(o)

-----------------------------------------------------------------------------
(* str operations *)

UpperToLower ==
    [A |-> "a", B |-> "b", C |-> "c", D |-> "d", E |-> "e", F |-> "f",
     G |-> "g", H |-> "h", I |-> "i", J |-> "j", K |-> "k", L |-> "l",
     M |-> "m", N |-> "n", O |-> "o", P |-> "p", Q |-> "q", R |-> "r",
     S |-> "s", T |-> "t", U |-> "u", V |-> "v", W |-> "w", X |-> "x",
     Y |-> "y", Z |-> "z"]

LowerChar(c) ==
    IF c \in DOMAIN UpperToLower THEN UpperToLower[c] ELSE c

\* str.lower()
Lower(s) ==
    [i \in 1..Len(s) |-> LowerChar(s[i])]

Whitespace ==
    {" ", "\n", "\t", "\r"}

RECURSIVE LStrip(_)
LStrip(s) ==
    IF s # <<>> /\ Head(s) \in Whitespace THEN LStrip(Tail(s)) ELSE s

RECURSIVE RStrip(_)
RStrip(s) ==
    IF s # <<>> /\ s[Len(s)] \in Whitespace
    THEN RStrip(SubSeq(s, 1, Len(s) - 1))
    ELSE s

\* str.strip()
Strip(s) ==
    RStrip(LStrip(s))

\* Python `sub in s`: scan s left to right for an occurrence of sub.
RECURSIVE ContainsFrom(_, _, _)
ContainsFrom(sub, s, i) ==
    IF i + Len(sub) - 1 > Len(s) THEN FALSE
    ELSE IF SubSeq(s, i, i + Len(sub) - 1) = sub THEN TRUE
    ELSE ContainsFrom(sub, s, i + 1)

Contains(sub, s) ==
    ContainsFrom(sub, s, 1)

-----------------------------------------------------------------------------
(* String literals of the source *)

\* "faq"
faq ==
    <<"f", "a", "q">>

\* "order_status"
order_status ==
    <<"o", "r", "d", "e", "r", "_", "s", "t", "a", "t", "u", "s">>

\* "refund_status"
refund_status ==
    <<"r", "e", "f", "u", "n", "d", "_", "s", "t", "a", "t", "u", "s">>

\* "review"
review ==
    <<"r", "e", "v", "i", "e", "w">>

\* "order_details"
order_details ==
    <<"o", "r", "d", "e", "r", "_", "d", "e", "t", "a", "i", "l", "s">>

\* "detail"
detail ==
    <<"d", "e", "t", "a", "i", "l">>

\* "item"
item ==
    <<"i", "t", "e", "m">>

\* "order"
order ==
    <<"o", "r", "d", "e", "r">>

\* "I'm sorry, I could not classify your request."
CouldNotClassify ==
    <<"I", "'", "m", " ", "s", "o", "r", "r", "y", ",", " ", "I", " ", "c",
       "o", "u", "l", "d", " ", "n", "o", "t", " ", "c", "l", "a", "s", "s",
       "i", "f", "y", " ", "y", "o", "u", "r", " ", "r", "e", "q", "u", "e",
       "s", "t", ".">>

\* "Error during tool dispatch: "
ErrorDuringToolDispatch ==
    <<"E", "r", "r", "o", "r", " ", "d", "u", "r", "i", "n", "g", " ", "t",
       "o", "o", "l", " ", "d", "i", "s", "p", "a", "t", "c", "h", ":", " ">>

\* "Please provide a valid order ID (32-character hex)."
PleaseProvideOrderId ==
    <<"P", "l", "e", "a", "s", "e", " ", "p", "r", "o", "v", "i", "d", "e",
       " ", "a", " ", "v", "a", "l", "i", "d", " ", "o", "r", "d", "e", "r",
       " ", "I", "D", " ", "(", "3", "2", "-", "c", "h", "a", "r", "a", "c",
       "t", "e", "r", " ", "h", "e", "x", ")", ".">>

\* "No order found for ID: "
NoOrderFoundForId ==
    <<"N", "o", " ", "o", "r", "d", "e", "r", " ", "f", "o", "u", "n", "d",
       " ", "f", "o", "r", " ", "I", "D", ":", " ">>

\* "No payment info for order "
NoPaymentInfo ==
    <<"N", "o", " ", "p", "a", "y", "m", "e", "n", "t", " ", "i", "n", "f",
       "o", " ", "f", "o", "r", " ", "o", "r", "d", "e", "r", " ">>

\* "No review found for order "
NoReviewFound ==
    <<"N", "o", " ", "r", "e", "v", "i", "e", "w", " ", "f", "o", "u", "n",
       "d", " ", "f", "o", "r", " ", "o", "r", "d", "e", "r", " ">>

\* "No relevant FAQ found."
NoRelevantFaq ==
    <<"N", "o", " ", "r", "e", "l", "e", "v", "a", "n", "t", " ", "F", "A",
       "Q", " ", "f", "o", "u", "n", "d", ".">>

\* "Order "
OrderPrefix ==
    <<"O", "r", "d", "e", "r", " ">>

\* " status: "
StatusInfix ==
    <<" ", "s", "t", "a", "t", "u", "s", ":", " ">>

\* " was fully refunded."
WasFullyRefunded ==
    <<" ", "w", "a", "s", " ", "f", "u", "l", "l", "y", " ", "r", "e", "f",
       "u", "n", "d", "e", "d", ".">>

\* "Review for order "
ReviewForOrder ==
    <<"R", "e", "v", "i", "e", "w", " ", "f", "o", "r", " ", "o", "r", "d",
       "e", "r", " ">>

\* "."
Dot ==
    <<".">>

-----------------------------------------------------------------------------
(* Inputs: user queries, provider responses, store contents *)

\* "Status of ORDER aaaaaaaaaaaaaaaaaaaaaaaaaaaaaaaa"
QueryOrderWithId ==
    <<"S", "t", "a", "t", "u", "s", " ", "o", "f", " ", "O", "R", "D", "E",
       "R", " ", "a", "a", "a", "a", "a", "a", "a", "a", "a", "a", "a", "a",
       "a", "a", "a", "a", "a", "a", "a", "a", "a", "a", "a", "a", "a", "a",
       "a", "a", "a", "a", "a", "a">>

\* "Order ITEMS please"
QueryOrderItems ==
    <<"O", "r", "d", "e", "r", " ", "I", "T", "E", "M", "S", " ", "p", "l",
       "e", "a", "s", "e">>

\* "show Details"
QueryDetails ==
    <<"s", "h", "o", "w", " ", "D", "e", "t", "a", "i", "l", "s">>

\* "Where is my package?"
QueryPackage ==
    <<"W", "h", "e", "r", "e", " ", "i", "s", " ", "m", "y", " ", "p", "a",
       "c", "k", "a", "g", "e", "?">>

Queries ==
    {QueryOrderWithId, QueryOrderItems, QueryDetails, QueryPackage}

\* Raw texts the chat-completion provider may answer the classification prompt with.
OpenAIResponses ==
    {order_status, order_details, review,
     <<" ", "F", "A", "Q", "\n">>,
     <<"R", "e", "f", "u", "n", "d", "_", "S", "t", "a", "t", "u", "s">>,
     <<"u", "n", "c", "l", "a", "s", "s", "i", "f", "i", "e", "d">>,
     <<"o", "r", "d", "e", "r", " ", "s", "t", "a", "t", "u", "s">>,
     <<>>}

\* result["labels"][0] of the zero-shot pipeline: one of candidate_intents.
candidate_intents ==
    {faq, order_status, refund_status, review, order_details}

Providers ==
    {"openai", "huggingface"}

\* Texts the chat-completion provider may answer the rephrase prompt with.
\* "Happy to help!"
HappyToHelp ==
    <<"H", "a", "p", "p", "y", " ", "t", "o", " ", "h", "e", "l", "p", "!">>

CompletionTexts ==
    {HappyToHelp, <<>>}

\* Messages of the exceptions the collaborators raise.
\* "database is locked"
DatabaseIsLocked ==
    <<"d", "a", "t", "a", "b", "a", "s", "e", " ", "i", "s", " ", "l", "o",
       "c", "k", "e", "d">>

\* "vector store unavailable"
VectorStoreUnavailable ==
    <<"v", "e", "c", "t", "o", "r", " ", "s", "t", "o", "r", "e", " ", "u",
       "n", "a", "v", "a", "i", "l", "a", "b", "l", "e">>

\* "delivered"
Delivered ==
    <<"d", "e", "l", "i", "v", "e", "r", "e", "d">>

\* "2018-01-02 10:00:00"
PurchaseTs ==
    <<"2", "0", "1", "8", "-", "0", "1", "-", "0", "2", " ", "1", "0", ":",
       "0", "0", ":", "0", "0">>

\* "2018-01-20 00:00:00"
EstimatedTs ==
    <<"2", "0", "1", "8", "-", "0", "1", "-", "2", "0", " ", "0", "0", ":",
       "0", "0", ":", "0", "0">>

\* "Returns are accepted within 30 days."
FaqDoc ==
    <<"R", "e", "t", "u", "r", "n", "s", " ", "a", "r", "e", " ", "a", "c",
       "c", "e", "p", "t", "e", "d", " ", "w", "i", "t", "h", "i", "n", " ",
       "3", "0", " ", "d", "a", "y", "s", ".">>

\* "credit_card"
CreditCard ==
    <<"c", "r", "e", "d", "i", "t", "_", "c", "a", "r", "d">>

\* "voucher"
Voucher ==
    <<"v", "o", "u", "c", "h", "e", "r">>

\* order.customer
CustomerA ==
    [customer_unique_id |-> <<"c", "1">>, customer_city |-> <<"s", "a", "o", " ", "p", "a", "u", "l", "o">>,
     customer_state |-> <<"S", "P">>]

\* item.product with its category_translation resolving to "toys"
ProductTranslated ==
    [category_translation |-> Some(<<"t", "o", "y", "s">>),
     product_category_name |-> Some(<<"b", "r", "i", "n", "q", "u", "e", "d", "o", "s">>)]

\* One row of order.order_items
ItemA ==
    [product_id |-> <<"p", "1">>, product |-> Some(ProductTranslated),
     seller |-> Some([seller_id |-> <<"s", "1">>]), price |-> 1990]

\* The order row with its relations; an absent customer, product or seller
\* is None.  payment_type_set lists {p.payment_type for p in order_payments}
\* in the order the set is iterated in.
OrderSample ==
    [order_status |-> Delivered,
     order_purchase_timestamp |-> PurchaseTs,
     order_estimated_delivery_date |-> EstimatedTs,
     customer |-> Some(CustomerA),
     order_items |-> <<ItemA>>,
     order_payments |-> <<[payment_type |-> CreditCard, payment_value |-> Some(4990)]>>,
     payment_type_set |-> <<CreditCard>>,
     order_reviews |-> <<[review_score |-> 5, review_comment_message |-> None]>>]

\* What the relational store and the vector store answer during one dispatch:
\* whether a query on each succeeds (up, vs_up), the rows for the order id
\* asked about, and the FAQ documents found.
StoreEmpty ==
    [up |-> TRUE, vs_up |-> TRUE, order |-> None, payments |-> <<>>,
     review |-> None, docs |-> <<>>]

StoreSample ==
    [up |-> TRUE,
     vs_up |-> TRUE,
     order |-> Some(OrderSample),
     payments |-> <<Some(4990)>>,
     review |-> Some([review_score |-> 5, review_comment_message |-> None]),
     docs |-> <<FaqDoc>>]

StoreDown ==
    [up |-> FALSE, vs_up |-> FALSE, order |-> None, payments |-> <<>>,
     review |-> None, docs |-> <<>>]

Stores ==
    {StoreEmpty, StoreSample, StoreDown}

-----------------------------------------------------------------------------
(* tools/business_tools.py *)

OrderIdMinLen ==
    32

Digit ==
    <<"0", "1", "2", "3", "4", "5", "6", "7", "8", "9">>

HexChars ==
    {"0", "1", "2", "3", "4", "5", "6", "7", "8", "9", "a", "b", "c", "d", "e", "f"}

\* \w of the re module, restricted to ASCII
WordChars ==
    DOMAIN UpperToLower \cup {UpperToLower[c] : c \in DOMAIN UpperToLower}
        \cup {Digit[i] : i \in 1..10} \cup {"_"}

\* \b at the gap before position i of s
WordBoundary(s, i) ==
    LET before == i > 1 /\ s[i - 1] \in WordChars
        after == i <= Len(s) /\ s[i] \in WordChars
    IN before # after

\* Last position of the run of hex characters starting at i (i - 1 when none).
RECURSIVE HexRunEnd(_, _)
HexRunEnd(s, i) ==
    IF i <= Len(s) /\ s[i] \in HexChars THEN HexRunEnd(s, i + 1) ELSE i - 1

\* [0-9a-f]{32,} without the \b assertions.
MatchesAt_no_boundary(s, i) ==
    HexRunEnd(s, i) - i + 1 >= OrderIdMinLen

\* Whether \b[0-9a-f]{32,}\b matches at i.  The greedy run is the only
\* candidate: inside a run both neighbours are word characters, so no
\* shorter prefix of it ends at a word boundary.
MatchesAt(s, i) ==
    LET j == HexRunEnd(s, i)
    IN /\ WordBoundary(s, i)
       /\ j - i + 1 >= OrderIdMinLen
       /\ WordBoundary(s, j + 1)

\* re.search(r'(\b[0-9a-f]{32,}\b)', query): the leftmost match, or None.
RECURSIVE SearchOrderIdFrom(_, _)
SearchOrderIdFrom(s, i) ==
    IF i > Len(s) THEN None
    ELSE IF MatchesAt(s, i) THEN Some(SubSeq(s, i, HexRunEnd(s, i)))
    ELSE SearchOrderIdFrom(s, i + 1)

ExtractOrderId(query) ==
    SearchOrderIdFrom(query, 1)

RECURSIVE Digits(_)
Digits(n) ==
    IF n < 10 THEN <<Digit[n + 1]>> ELSE Digits(n \div 10) \o <<Digit[(n % 10) + 1]>>

\* f"{x:.2f}" of a non-negative amount held in hundredths
Format2f(cents) ==
    Digits(cents \div 100) \o Dot
        \o <<Digit[((cents \div 10) % 10) + 1], Digit[(cents % 10) + 1]>>

\* A sum that stops at the first null amount.
RECURSIVE SumPayments_stops_at_null(_)
SumPayments_stops_at_null(payments) ==
    IF payments = <<>> \/ Head(payments) = None THEN 0
    ELSE Val(Head(payments)) + SumPayments_stops_at_null(Tail(payments))

\* sum(p.payment_value or 0 for p in payments)
RECURSIVE SumPayments(_)
SumPayments(payments) ==
    IF payments = <<>> THEN 0
    ELSE (IF Head(payments) = None THEN 0 ELSE Val(Head(payments)))
         + SumPayments(Tail(payments))

\* A call's outcome: the str returned, or the message of the exception raised.
Return(text) ==
    [raised |-> FALSE, text |-> text]

Raise(message) ==
    [raised |-> TRUE, text |-> message]

\* f"Order {order_id} status: {order.order_status}\nPurchased: {...}\nEstimated delivery: {...}"
OrderBlock(order_id, row) ==
    OrderPrefix \o order_id \o StatusInfix \o row.order_status
        \o <<"\n", "P", "u", "r", "c", "h", "a", "s", "e", "d", ":", " ">> \o row.order_purchase_timestamp
        \o <<"\n", "E", "s", "t", "i", "m", "a", "t", "e", "d", " ", "d", "e",
       "l", "i", "v", "e", "r", "y", ":", " ">> \o row.order_estimated_delivery_date

get_order_status(query, store) ==
    LET order_id == ExtractOrderId(query)
    IN IF order_id = None THEN Return(PleaseProvideOrderId)
       ELSE IF ~store.up THEN Raise(DatabaseIsLocked)
       ELSE IF store.order = None
            THEN Return(NoOrderFoundForId \o Val(order_id) \o Dot)
       ELSE Return(OrderBlock(Val(order_id), Val(store.order)))

get_refund_status(query, store) ==
    LET order_id == ExtractOrderId(query)
        total_paid == SumPayments(store.payments)
    IN IF order_id = None THEN Return(PleaseProvideOrderId)
       ELSE IF ~store.up THEN Raise(DatabaseIsLocked)
       ELSE IF store.payments = <<>>
            THEN Return(NoPaymentInfo \o Val(order_id) \o Dot)
       ELSE IF total_paid = 0
            THEN Return(OrderPrefix \o Val(order_id) \o WasFullyRefunded)
       ELSE Return(OrderPrefix \o Val(order_id) \o <<" ", "w", "a", "s", " ", "p", "a", "i", "d", " ">>
                   \o Format2f(total_paid) \o <<",", " ", "r", "e", "f", "u", "n", "d", " ", "s", "t", "a", "t", "u",
       "s", " ", "u", "n", "k", "n", "o", "w", "n", ".">>)

get_review(query, store) ==
    LET order_id == ExtractOrderId(query)
        r == Val(store.review)
        msg == IF r.review_comment_message \in {None, Some(<<>>)}
               THEN <<"N", "o", " ", "c", "o", "m", "m", "e", "n", "t", ".">>
               ELSE Val(r.review_comment_message)
    IN IF order_id = None THEN Return(PleaseProvideOrderId)
       ELSE IF ~store.up THEN Raise(DatabaseIsLocked)
       ELSE IF store.review = None
            THEN Return(NoReviewFound \o Val(order_id) \o Dot)
       ELSE Return(ReviewForOrder \o Val(order_id) \o <<":", "\n", "S", "c", "o", "r", "e", ":", " ">>
                   \o Digits(r.review_score) \o <<"\n", "M", "e", "s", "s", "a", "g", "e", ":", " ">> \o msg)

\* f"Customer {customer.customer_unique_id} in {customer.customer_city}, {customer.customer_state}"
CustomerLine(customer) ==
    <<"C", "u", "s", "t", "o", "m", "e", "r", " ">> \o customer.customer_unique_id \o <<" ", "i", "n", " ">>
        \o customer.customer_city \o <<",", " ">> \o customer.customer_state

\* `cat or 'unknown category'` after the if/elif on item.product
Category(product) ==
    LET cat == IF product = None THEN None
               ELSE IF Val(product).category_translation # None
                    THEN Val(product).category_translation
               ELSE Val(product).product_category_name
    IN IF cat \in {None, Some(<<>>)} THEN <<"u", "n", "k", "n", "o", "w", "n", " ", "c", "a", "t", "e", "g", "o",
       "r", "y">> ELSE Val(cat)

\* f"  - {item.product_id} ({cat or 'unknown category'}) from {seller.seller_id} price {item.price:.2f}"
ItemLine(row) ==
    <<" ", " ", "-", " ">> \o row.product_id \o <<" ", "(">> \o Category(row.product)
        \o <<")", " ", "f", "r", "o", "m", " ">> \o Val(row.seller).seller_id \o <<" ", "p", "r", "i", "c", "e", " ">>
        \o Format2f(row.price)

\* the lines.append calls of the loop over order.order_items, each line
\* after the "\n" that join puts before it
RECURSIVE ItemLines(_)
ItemLines(items) ==
    IF items = <<>> THEN <<>>
    ELSE <<"\n">> \o ItemLine(Head(items)) \o ItemLines(Tail(items))

\* ", ".join({p.payment_type for p in order.order_payments})
RECURSIVE JoinComma(_)
JoinComma(names) ==
    IF Len(names) = 1 THEN Head(names)
    ELSE Head(names) \o <<",", " ">> \o JoinComma(Tail(names))

\* payment_value of each row of order.order_payments
PaymentValues(rows) ==
    [i \in 1..Len(rows) |-> rows[i].payment_value]

\* "\n".join(lines) of get_order_details for the order row found
OrderDetailsText(order_id, row) ==
    LET r == row.order_reviews[1]
        msg == IF r.review_comment_message \in {None, Some(<<>>)}
               THEN <<"N", "o", " ", "c", "o", "m", "m", "e", "n", "t", ".">>
               ELSE Val(r.review_comment_message)
    IN OrderBlock(order_id, row)
       \o (IF row.customer = None THEN <<>>
           ELSE <<"\n">> \o CustomerLine(Val(row.customer)))
       \o (IF row.order_items = <<>> THEN <<>>
           ELSE <<"\n", "I", "t", "e", "m", "s", ":">> \o ItemLines(row.order_items))
       \o (IF row.order_payments = <<>> THEN <<>>
           ELSE <<"\n", "P", "a", "y", "m", "e", "n", "t", "s", ":", " ">>
                \o Format2f(SumPayments(PaymentValues(row.order_payments)))
                \o <<" ", "v", "i", "a", " ">> \o JoinComma(row.payment_type_set))
       \o (IF row.order_reviews = <<>> THEN <<>>
           ELSE <<"\n", "R", "e", "v", "i", "e", "w", ":", " ">> \o Digits(r.review_score) \o <<" ", "-", " ">> \o msg)

\* "'NoneType' object has no attribute 'seller_id'"
NoneTypeHasNoSellerId ==
    <<"'", "N", "o", "n", "e", "T", "y", "p", "e", "'", " ", "o", "b", "j",
       "e", "c", "t", " ", "h", "a", "s", " ", "n", "o", " ", "a", "t", "t",
       "r", "i", "b", "u", "t", "e", " ", "'", "s", "e", "l", "l", "e", "r",
       "_", "i", "d", "'">>

\* get_order_details for the order row found: seller.seller_id raises for
\* an item whose seller does not resolve.
OrderDetailsOutcome(order_id, row) ==
    IF \E i \in 1..Len(row.order_items) : row.order_items[i].seller = None
    THEN Raise(NoneTypeHasNoSellerId)
    ELSE Return(OrderDetailsText(order_id, row))

\* get_order_details without its `if not order` test: the first attribute
\* read of the missing row raises.
get_order_details_unchecked(query, store) ==
    LET order_id == ExtractOrderId(query)
    IN IF order_id = None THEN Return(PleaseProvideOrderId)
       ELSE IF ~store.up THEN Raise(DatabaseIsLocked)
       ELSE IF store.order = None
            THEN Raise(<<"'", "N", "o", "n", "e", "T", "y", "p", "e", "'", " ", "o", "b", "j",
       "e", "c", "t", " ", "h", "a", "s", " ", "n", "o", " ", "a", "t", "t",
       "r", "i", "b", "u", "t", "e", " ", "'", "c", "u", "s", "t", "o", "m",
       "e", "r", "'">>)
       ELSE OrderDetailsOutcome(Val(order_id), Val(store.order))

get_order_details(query, store) ==
    LET order_id == ExtractOrderId(query)
    IN IF order_id = None THEN Return(PleaseProvideOrderId)
       ELSE IF ~store.up THEN Raise(DatabaseIsLocked)
       ELSE IF store.order = None
            THEN Return(NoOrderFoundForId \o Val(order_id) \o Dot)
       ELSE OrderDetailsOutcome(Val(order_id), Val(store.order))

\* "\n\n".join(doc.page_content for doc in docs)
RECURSIVE JoinDocs(_)
JoinDocs(docs) ==
    IF Len(docs) = 1 THEN Head(docs)
    ELSE Head(docs) \o <<"\n", "\n">> \o JoinDocs(Tail(docs))

\* A FAQ lookup that asks for an order id like the other four.
search_faq_wants_order_id(query, store) ==
    IF ExtractOrderId(query) = None THEN Return(PleaseProvideOrderId)
    ELSE IF ~store.vs_up THEN Raise(VectorStoreUnavailable)
    ELSE IF store.docs = <<>> THEN Return(NoRelevantFaq)
    ELSE Return(JoinDocs(store.docs))

\* search_faq -> semantic_faq_search -> FAQVectorStore.semantic_search
search_faq(query, store) ==
    IF ~store.vs_up THEN Raise(VectorStoreUnavailable)
    ELSE IF store.docs = <<>> THEN Return(NoRelevantFaq)
    ELSE Return(JoinDocs(store.docs))

-----------------------------------------------------------------------------
(* llm/llm.py : intent classifier *)

allowed ==
    {faq, order_status, refund_status, review, order_details}

\* resp.strip().lower()
openai_classify_intent(resp) ==
    Lower(Strip(resp))

\* result["labels"][0].lower()
hf_classify_intent(resp) ==
    Lower(resp)

\* What the configured provider can answer with.
ProviderResponses(prov) ==
    IF prov = "huggingface" THEN candidate_intents ELSE OpenAIResponses

\* KeywordFallback with the "order" rule tested before the "detail"/"item" rule.
KeywordFallback_order_first(query) ==
    IF Contains(order, Lower(query))
    THEN order_status
    ELSE IF \E word \in {detail, item} : Contains(word, Lower(query))
    THEN order_details
    ELSE faq

\* The keyword rules applied when the provider's label is not an allowed one.
KeywordFallback(query) ==
    IF \E word \in {detail, item} : Contains(word, Lower(query))
    THEN order_details
    ELSE IF Contains(order, Lower(query))
    THEN order_status
    ELSE faq

\* classify_intent returning the normalized label without the allowed-set test.
classify_intent_no_fallback(query, prov, resp) ==
    IF prov = "huggingface"
    THEN hf_classify_intent(resp)
    ELSE openai_classify_intent(resp)

classify_intent(query, prov, resp) ==
    LET intent == IF prov = "huggingface"
                  THEN hf_classify_intent(resp)
                  ELSE openai_classify_intent(resp)
    IN IF intent \notin allowed THEN KeywordFallback(query) ELSE intent

-----------------------------------------------------------------------------
(* agent/state.py *)

DefaultLimit ==
    3

AgentTurn(user, agent) ==
    [user |-> user, agent |-> agent]

\* AgentState(input=q)
NewAgentState(q) ==
    [input |-> q, classification |-> None, tool_output |-> None,
     output |-> None, history |-> <<>>, intermediate_steps |-> None,
     context |-> None]

\* seq[-n:] for n > 0
LastN(seq, n) ==
    SubSeq(seq, IF Len(seq) > n THEN Len(seq) - n + 1 ELSE 1, Len(seq))

\* add_turn without the trim.
add_turn_keeps_all(state, user, agent, lim) ==
    [state EXCEPT !.history = Append(state.history, AgentTurn(user, agent))]

\* add_turn trimming with history[:limit]: the oldest entries are kept.
add_turn_keeps_oldest(state, user, agent, lim) ==
    LET appended == Append(state.history, AgentTurn(user, agent))
    IN [state EXCEPT !.history =
           IF lim > 0 /\ Len(appended) > lim THEN SubSeq(appended, 1, lim)
           ELSE appended]

\* add_turn trimming to the limit before it appends.
add_turn_trims_before_append(state, user, agent, lim) ==
    [state EXCEPT !.history =
        Append(IF lim > 0 THEN LastN(state.history, lim) ELSE state.history,
               AgentTurn(user, agent))]

\* add_turn with its two texts taken in the other order.
add_turn_swapped(state, user, agent, lim) ==
    LET appended == Append(state.history, AgentTurn(agent, user))
    IN [state EXCEPT !.history = IF lim > 0 THEN LastN(appended, lim) ELSE appended]

add_turn(state, user, agent, lim) ==
    LET appended == Append(state.history, AgentTurn(user, agent))
    IN [state EXCEPT !.history = IF lim > 0 THEN LastN(appended, lim) ELSE appended]

-----------------------------------------------------------------------------
(* agent/workflow.py *)

\* "provider unavailable"
ProviderUnavailable ==
    <<"p", "r", "o", "v", "i", "d", "e", "r", " ", "u", "n", "a", "v", "a",
       "i", "l", "a", "b", "l", "e">>

\* "unable to open database file"
UnableToOpenDatabase ==
    <<"u", "n", "a", "b", "l", "e", " ", "t", "o", " ", "o", "p", "e", "n",
       " ", "d", "a", "t", "a", "b", "a", "s", "e", " ", "f", "i", "l", "e">>

\* "Permission denied"
PermissionDenied ==
    <<"P", "e", "r", "m", "i", "s", "s", "i", "o", "n", " ", "d", "e", "n",
       "i", "e", "d">>

\* ResetTurn overwriting input only.
ResetTurn_input_only(state, q) ==
    [state EXCEPT !.input = q]

\* A reset that starts the history afresh.
ResetTurn_drops_history(state, q) ==
    [state EXCEPT !.input = q, !.classification = None,
                  !.tool_output = None, !.output = None, !.history = <<>>]

\* The reset ask_agent applies to the state it reuses.
ResetTurn(state, q) ==
    [state EXCEPT !.input = q, !.classification = None,
                  !.tool_output = None, !.output = None]

\* LookupFor without the "review" branch.
LookupFor_no_review(classification) ==
    IF classification = Some(order_status) THEN Some("get_order_status")
    ELSE IF classification = Some(order_details) THEN Some("get_order_details")
    ELSE IF classification = Some(faq) THEN Some("search_faq")
    ELSE IF classification = Some(refund_status) THEN Some("get_refund_status")
    ELSE None

\* The if/elif chain of tool_node: the lookup a classification is routed to.
LookupFor(classification) ==
    IF classification = Some(order_status) THEN Some("get_order_status")
    ELSE IF classification = Some(order_details) THEN Some("get_order_details")
    ELSE IF classification = Some(faq) THEN Some("search_faq")
    ELSE IF classification = Some(refund_status) THEN Some("get_refund_status")
    ELSE IF classification = Some(review) THEN Some("get_review")
    ELSE None

CallLookup(name, query, store) ==
    CASE name = "get_order_status" -> get_order_status(query, store)
      [] name = "get_order_details" -> get_order_details(query, store)
      [] name = "search_faq" -> search_faq(query, store)
      [] name = "get_refund_status" -> get_refund_status(query, store)
      [] name = "get_review" -> get_review(query, store)

\* A finally clause that does not close the session.
CloseSession_noop(open, s) ==
    open

\* session.close()
CloseSession(open, s) ==
    open \ {s}

\* The except clause handing the bare message on.
DispatchError_bare(message) ==
    message

\* f"Error during tool dispatch: {e}"
DispatchError(message) ==
    ErrorDuringToolDispatch \o message

\* build_workflow with the edge tool_use -> learning: answer is skipped.
Edge_skips_answer(node) ==
    CASE node = "__start__" -> "perception"
      [] node = "perception" -> "tool_use"
      [] node = "tool_use" -> "learning"
      [] node = "answer" -> "learning"
      [] node = "learning" -> "__end__"

\* build_workflow: the edges of the graph; a node without an outgoing edge
\* ends the run.
Edge(node) ==
    CASE node = "__start__" -> "perception"
      [] node = "perception" -> "tool_use"
      [] node = "tool_use" -> "answer"
      [] node = "answer" -> "learning"
      [] node = "learning" -> "__end__"

\* The node whose completion a position of the call stands for.
CompletedNode(p) ==
    CASE p = "Start" -> "__start__"
      [] p = "Classified" -> "perception"
      [] p = "ToolDispatched" -> "tool_use"
      [] p = "Formatted" -> "answer"
      [] p = "Logged" -> "learning"

\* graph.invoke runs `node` next.
Scheduled(node) ==
    /\ pc \in {"Start", "Classified", "ToolDispatched", "Formatted", "Logged"}
    /\ Edge(CompletedNode(pc)) = node

\* An exception leaves ask_agent: the call's locals are gone, the global
\* state is as the call last assigned it.
Propagate(message) ==
    /\ pc' = "Raised"
    /\ result' = Some(Raise(message))
    /\ st' = None
    /\ user_query' = None
    /\ provider_resp' = None

\* The second caller when it is not inside ask_agent.
OtherIdle ==
    [pc |-> "Idle", st |-> None, user_query |-> None, result |-> None]

Init ==
    /\ conversation_state = None
    /\ st = None
    /\ user_query = None
    /\ pc = "Idle"
    /\ provider \in Providers
    /\ provider_resp = None
    /\ engine = FALSE
    /\ session = None
    /\ open_sessions = {}
    /\ sessions_created = 0
    /\ tool_local = None
    /\ dispatch_exc = None
    /\ invoked = <<>>
    /\ log = <<>>
    /\ stages = <<>>
    /\ calls = 0
    /\ result = None
    /\ limit = DefaultLimit
    /\ turns = <<>>
    /\ store_used = None
    /\ other = OtherIdle

\* ask_agent up to the call of graph.invoke
ask_agent_start ==
    /\ pc \in {"Idle", "Done", "Raised"}
    /\ calls < MaxTurns
    /\ \E q \in Queries :
          /\ conversation_state' =
                IF conversation_state = None
                THEN Some(NewAgentState(q))
                ELSE Some(ResetTurn(Val(conversation_state), q))
          /\ user_query' = Some(q)
    /\ st' = conversation_state'
    /\ pc' = "Start"
    /\ stages' = <<"Start">>
    /\ calls' = calls + 1
    /\ result' = None
    /\ invoked' = <<>>
    /\ dispatch_exc' = None
    /\ tool_local' = None
    /\ UNCHANGED <<provider, provider_resp, engine, session, open_sessions,
                   sessions_created, log, limit, turns>>
    /\ UNCHANGED <<store_used, other>>

perception_node_falls_back ==
    /\ Scheduled("perception")
    /\ \/ \E resp \in ProviderResponses(provider) :
             /\ provider_resp' = Some(resp)
             /\ st' = Some([Val(st) EXCEPT !.classification =
                               Some(classify_intent(Val(st).input, provider, resp))])
       \/ /\ provider_resp' = None
          /\ st' = Some([Val(st) EXCEPT !.classification =
                            Some(KeywordFallback(Val(st).input))])
    /\ pc' = "Classified"
    /\ stages' = Append(stages, "Classified")
    /\ UNCHANGED <<conversation_state, user_query, result, provider, engine,
                   session, open_sessions, sessions_created, tool_local,
                   dispatch_exc, invoked, log, calls, limit, turns, store_used,
                   other>>

\* A classifier that answers from the history once there is one.
perception_node_reads_history ==
    /\ Scheduled("perception")
    /\ \/ \E resp \in ProviderResponses(provider) :
             /\ provider_resp' = Some(resp)
             /\ st' = Some([Val(st) EXCEPT !.classification =
                               IF Val(st).history = <<>>
                               THEN Some(classify_intent(Val(st).input, provider, resp))
                               ELSE Some(faq)])
             /\ pc' = "Classified"
             /\ stages' = Append(stages, "Classified")
             /\ UNCHANGED <<user_query, result>>
       \/ /\ Propagate(ProviderUnavailable)
          /\ UNCHANGED stages
    /\ UNCHANGED <<conversation_state, provider, engine, session, open_sessions,
                   sessions_created, tool_local, dispatch_exc, invoked, log,
                   calls, limit, turns, store_used, other>>

perception_node ==
    /\ Scheduled("perception")
    /\ \/ \E resp \in ProviderResponses(provider) :
             /\ provider_resp' = Some(resp)
             /\ st' = Some([Val(st) EXCEPT !.classification =
                               Some(classify_intent(Val(st).input, provider, resp))])
             /\ pc' = "Classified"
             /\ stages' = Append(stages, "Classified")
             /\ UNCHANGED <<user_query, result>>
       \/ /\ Propagate(ProviderUnavailable)
          /\ UNCHANGED stages
    /\ UNCHANGED <<conversation_state, provider, engine, session, open_sessions,
                   sessions_created, tool_local, dispatch_exc, invoked, log,
                   calls, limit, turns>>
    /\ UNCHANGED <<store_used, other>>

\* A tool_node that opens the engine and the session inside its try block.
tool_node_acquire_inside_try ==
    /\ Scheduled("tool_use")
    /\ \/ /\ engine' = TRUE
          /\ session' = Some(sessions_created + 1)
          /\ open_sessions' = open_sessions \cup {sessions_created + 1}
          /\ sessions_created' = sessions_created + 1
          /\ pc' = "ToolAcquired"
          /\ UNCHANGED <<tool_local, dispatch_exc>>
       \/ /\ engine = FALSE
          /\ engine' \in BOOLEAN
          /\ dispatch_exc' = Some(UnableToOpenDatabase)
          /\ tool_local' = Some(DispatchError(UnableToOpenDatabase))
          /\ pc' = "ToolCalled"
          /\ UNCHANGED <<session, open_sessions, sessions_created>>
    /\ provider_resp' = None
    /\ UNCHANGED <<conversation_state, st, user_query, result, provider,
                   invoked, log, stages, calls, limit, turns, store_used, other>>

\* tool_node up to its try block: initialize_engine(), get_session(engine)
tool_node_acquire ==
    /\ Scheduled("tool_use")
    /\ \/ /\ engine' = TRUE
          /\ session' = Some(sessions_created + 1)
          /\ open_sessions' = open_sessions \cup {sessions_created + 1}
          /\ sessions_created' = sessions_created + 1
          /\ pc' = "ToolAcquired"
          /\ provider_resp' = None
          /\ UNCHANGED <<st, user_query, result>>
       \/ /\ engine = FALSE
          /\ engine' \in BOOLEAN
          /\ Propagate(UnableToOpenDatabase)
          /\ UNCHANGED <<session, open_sessions, sessions_created>>
    /\ UNCHANGED <<conversation_state, provider, tool_local, dispatch_exc,
                   invoked, log, stages, calls, limit, turns>>
    /\ UNCHANGED <<store_used, other>>

\* the try block of tool_node with its except clause
tool_node_dispatch ==
    /\ pc = "ToolAcquired"
    /\ LET lookup == LookupFor(Val(st).classification)
       IN IF lookup = None
          THEN /\ tool_local' = Some(CouldNotClassify)
               /\ UNCHANGED <<invoked, dispatch_exc, store_used>>
          ELSE \E store \in Stores :
                  LET outcome == CallLookup(Val(lookup), Val(st).input, store)
                  IN /\ invoked' = Append(invoked, Val(lookup))
                     /\ store_used' = Some(store)
                     /\ IF outcome.raised
                        THEN /\ dispatch_exc' = Some(outcome.text)
                             /\ tool_local' = Some(DispatchError(outcome.text))
                        ELSE /\ tool_local' = Some(outcome.text)
                             /\ UNCHANGED dispatch_exc
    /\ pc' = "ToolCalled"
    /\ UNCHANGED <<conversation_state, st, user_query, provider, provider_resp,
                   engine, session, open_sessions, sessions_created, log,
                   stages, calls, result, limit, turns>>
    /\ UNCHANGED other

\* A tool_node that forgets the classification once the lookup is done.
tool_node_finally_clears_classification ==
    /\ pc = "ToolCalled"
    /\ open_sessions' = CloseSession(open_sessions, Val(session))
    /\ session' = None
    /\ st' = Some([Val(st) EXCEPT !.tool_output = tool_local,
                                  !.classification = None])
    /\ tool_local' = None
    /\ store_used' = None
    /\ pc' = "ToolDispatched"
    /\ stages' = Append(stages, "ToolDispatched")
    /\ UNCHANGED <<conversation_state, user_query, provider, provider_resp,
                   engine, sessions_created, dispatch_exc, invoked, log, calls,
                   result, limit, turns, other>>

\* the finally clause of tool_node and the statements after it
tool_node_finally ==
    /\ pc = "ToolCalled"
    /\ open_sessions' = CloseSession(open_sessions, Val(session))
    /\ session' = None
    /\ st' = Some([Val(st) EXCEPT !.tool_output = tool_local])
    /\ tool_local' = None
    /\ store_used' = None
    /\ pc' = "ToolDispatched"
    /\ stages' = Append(stages, "ToolDispatched")
    /\ UNCHANGED <<conversation_state, user_query, provider, provider_resp,
                   engine, sessions_created, dispatch_exc, invoked, log, calls,
                   result, limit, turns>>
    /\ UNCHANGED other

answer_node ==
    /\ Scheduled("answer")
    /\ \/ \E rephrased \in CompletionTexts :
             /\ st' = Some([Val(st) EXCEPT !.output = Some(rephrased)])
             /\ pc' = "Formatted"
             /\ stages' = Append(stages, "Formatted")
             /\ provider_resp' = Some(rephrased)
             /\ UNCHANGED <<user_query, result>>
       \/ /\ Propagate(ProviderUnavailable)
          /\ UNCHANGED stages
    /\ UNCHANGED <<conversation_state, provider, engine, session, open_sessions,
                   sessions_created, tool_local, dispatch_exc, invoked, log,
                   calls, limit, turns>>
    /\ UNCHANGED <<store_used, other>>

\* learning_node -> log_interaction; the line's timestamp is not kept
learning_node ==
    /\ Scheduled("learning")
    /\ \/ /\ log' = Append(log, <<Val(st).input, OrEmpty(Val(st).output)>>)
          /\ pc' = "Logged"
          /\ stages' = Append(stages, "Logged")
          /\ UNCHANGED <<st, user_query, provider_resp, result>>
       \/ /\ Propagate(PermissionDenied)
          /\ UNCHANGED <<log, stages>>
    /\ UNCHANGED <<conversation_state, provider, engine, session, open_sessions,
                   sessions_created, tool_local, dispatch_exc, invoked, calls,
                   limit, turns>>
    /\ UNCHANGED <<store_used, other>>

\* ask_agent after graph.invoke returned: add_turn and return
ask_agent_done ==
    /\ Scheduled("__end__")
    /\ conversation_state' =
          Some(add_turn(Val(st), Val(user_query), OrEmpty(Val(st).output), DefaultLimit))
    /\ turns' = Append(turns, AgentTurn(Val(user_query), OrEmpty(Val(st).output)))
    /\ result' = Some(Return(OrEmpty(Val(st).output)))
    /\ st' = None
    /\ user_query' = None
    /\ pc' = "Done"
    /\ stages' = Append(stages, "Done")
    /\ provider_resp' = None
    /\ UNCHANGED <<provider, engine, session, open_sessions,
                   sessions_created, tool_local, dispatch_exc, invoked, log,
                   calls, limit>>
    /\ UNCHANGED <<store_used, other>>

Next ==
    \/ ask_agent_start
    \/ perception_node
    \/ tool_node_acquire
    \/ tool_node_dispatch
    \/ tool_node_finally
    \/ answer_node
    \/ learning_node
    \/ ask_agent_done

Spec ==
    Init /\ [][Next]_vars

-----------------------------------------------------------------------------
(* AgentState.add_turn on its own: any limit, any sequence of calls *)

InitHistory ==
    /\ conversation_state = Some(NewAgentState(QueryPackage))
    /\ st = None
    /\ user_query = None
    /\ pc = "Idle"
    /\ provider = "openai"
    /\ provider_resp = None
    /\ engine = FALSE
    /\ session = None
    /\ open_sessions = {}
    /\ sessions_created = 0
    /\ tool_local = None
    /\ dispatch_exc = None
    /\ invoked = <<>>
    /\ log = <<>>
    /\ stages = <<>>
    /\ calls = 0
    /\ result = None
    /\ limit \in 0..MaxLimit
    /\ turns = <<>>
    /\ store_used = None
    /\ other = OtherIdle

add_turn_call ==
    /\ Len(turns) < MaxAdds
    /\ \E user \in {QueryDetails, QueryPackage}, agent \in CompletionTexts :
          /\ conversation_state' =
                Some(add_turn(Val(conversation_state), user, agent, limit))
          /\ turns' = Append(turns, AgentTurn(user, agent))
    /\ UNCHANGED <<st, user_query, pc, provider, provider_resp, engine, session,
                   open_sessions, sessions_created, tool_local, dispatch_exc,
                   invoked, log, stages, calls, result, limit, store_used, other>>

NextHistory ==
    add_turn_call

SpecHistory ==
    InitHistory /\ [][NextHistory]_vars

-----------------------------------------------------------------------------
(* tool_node on its own: any classification value, absent included *)

\* "ORDER_STATUS"
UpperOrderStatus ==
    <<"O", "R", "D", "E", "R", "_", "S", "T", "A", "T", "U", "S">>

\* "unclassified"
Unclassified ==
    <<"u", "n", "c", "l", "a", "s", "s", "i", "f", "i", "e", "d">>

ClassificationValues ==
    {Some(c) : c \in allowed \cup {Unclassified, UpperOrderStatus, <<>>}} \cup {None}

InitTool ==
    /\ \E q \in Queries, c \in ClassificationValues :
          st = Some([NewAgentState(q) EXCEPT !.classification = c])
    /\ conversation_state = st
    /\ user_query = Some(Val(st).input)
    /\ pc = "Classified"
    /\ provider = "openai"
    /\ provider_resp = None
    /\ engine \in BOOLEAN
    /\ session = None
    /\ open_sessions = {}
    /\ sessions_created = 0
    /\ tool_local = None
    /\ dispatch_exc = None
    /\ invoked = <<>>
    /\ log = <<>>
    /\ stages = <<"Start", "Classified">>
    /\ calls = 1
    /\ result = None
    /\ limit = DefaultLimit
    /\ turns = <<>>
    /\ store_used = None
    /\ other = OtherIdle

NextTool ==
    \/ tool_node_acquire
    \/ tool_node_dispatch
    \/ tool_node_finally

SpecTool ==
    InitTool /\ [][NextTool]_vars

-----------------------------------------------------------------------------
(* Properties *)

History ==
    Val(conversation_state).history

Min(a, b) ==
    IF a < b THEN a ELSE b

\* s occurs in t at some position
HasSub(sub, s) ==
    \E i \in 1..Len(s) : i + Len(sub) - 1 <= Len(s) /\ SubSeq(s, i, i + Len(sub) - 1) = sub

AllStages ==
    <<"Start", "Classified", "ToolDispatched", "Formatted", "Logged", "Done">>

IsPrefix(s, t) ==
    Len(s) <= Len(t) /\ s = SubSeq(t, 1, Len(s))

\* C1: with capacity limit > 0 the history never holds more than limit
\* turns, whatever the number of add_turn calls; with limit = 0 nothing is
\* trimmed and the history holds every turn added.
C1_HistoryBounded ==
    /\ limit > 0 => Len(History) <= limit
    /\ limit = 0 => Len(History) = Len(turns)

\* C1 witness: more turns were added than the capacity holds.
C1_Witness ==
    /\ limit > 0
    /\ Len(turns) > limit
    /\ Len(History) = limit

\* C2: after n add_turn calls with capacity limit > 0 the history is exactly
\* the last min(n, limit) turns in the order they were added; with limit 3,
\* after the fourth turn the first entry is the second turn's record.
C2_SlidingWindow ==
    /\ limit > 0 =>
          LET k == Min(Len(turns), limit)
          IN /\ Len(History) = k
             /\ \A i \in 1..k : History[i] = turns[Len(turns) - k + i]
    /\ limit = 3 /\ Len(turns) = 4 => History[1] = turns[2]

\* C2 witness: capacity 3, four turns added, the first differing from the second.
C2_Witness ==
    /\ limit = 3
    /\ Len(turns) = 4
    /\ turns[1] # turns[2]
    /\ History[1] = turns[2]

\* C3: when the classifier is about to run, input is the query of this call
\* and classification, tool_output and output are absent; tool_output and
\* output are still absent when the dispatcher runs; the first call creates
\* the state with an empty history.
C3_ResetBeforeClassify ==
    /\ pc = "Start" =>
          /\ st = conversation_state
          /\ Val(st).input = Val(user_query)
          /\ Val(st).classification = None
          /\ Val(st).tool_output = None
          /\ Val(st).output = None
    /\ pc \in {"Classified", "ToolAcquired", "ToolCalled"} =>
          /\ Val(st).input = Val(user_query)
          /\ Val(st).tool_output = None
          /\ Val(st).output = None
    /\ pc = "Start" /\ calls = 1 => Val(st) = NewAgentState(Val(user_query))

\* C3 witness: a later call starts on a state whose previous turn completed
\* with a classification, a tool output and an output.
C3_Witness ==
    /\ pc = "Start"
    /\ calls > 1
    /\ Val(st).history # <<>>
    /\ Val(st).history[Len(Val(st).history)].agent # <<>>

\* C4 as stated: every call that has ended passed through all six stages.
C4_EveryTurnReachesDone ==
    pc \in {"Done", "Raised"} => stages = AllStages

\* C4 amended: the stages a call passes through are a prefix of Start,
\* Classified, ToolDispatched, Formatted, Logged, Done, each once and in that
\* order; a call that returns passed through all six and a call that raised
\* stopped before Done; classification is set before dispatch, tool_output
\* before formatting, output before the log line, the log line before the
\* history append.
C4_StagesInOrder ==
    /\ IsPrefix(stages, AllStages)
    /\ pc = "Done" => stages = AllStages
    /\ pc = "Raised" => Len(stages) < Len(AllStages)
    /\ pc \in {"Start", "Classified", "ToolDispatched", "Formatted", "Logged"} =>
          stages[Len(stages)] = pc
    /\ pc \in {"ToolAcquired", "ToolCalled"} =>
          /\ stages = <<"Start", "Classified">>
          /\ Val(st).classification # None
    /\ pc = "ToolDispatched" => Val(st).tool_output # None
    /\ pc = "Formatted" => Val(st).tool_output # None /\ Val(st).output # None
    /\ pc = "Logged" =>
          /\ Len(log) = Len(turns) + 1
          /\ log[Len(log)] = <<Val(st).input, OrEmpty(Val(st).output)>>
    /\ pc # "Logged" => Len(log) = Len(turns)
    /\ pc = "Done" =>
          /\ History[Len(History)] = turns[Len(turns)]
          /\ log[Len(log)] = <<turns[Len(turns)].user, turns[Len(turns)].agent>>

\* C4 witness: a call returned after all six stages.
C4_Witness ==
    /\ pc = "Done"
    /\ stages = AllStages
    /\ Len(log) = 2

\* C5: whenever classify_intent has returned, whatever the query and the
\* provider's response, the classification it stored is one of the five
\* intents; the dispatcher reads one of the five and always finds a lookup.
C5_ClassificationInAllowed ==
    /\ pc \in {"Classified", "ToolAcquired", "ToolCalled", "ToolDispatched",
               "Formatted", "Logged"} =>
          Val(st).classification \in {Some(c) : c \in allowed}
    /\ pc = "ToolCalled" => Len(invoked) = 1 /\ tool_local # Some(CouldNotClassify)

\* C5 witness: the provider answered outside the allowed set and the
\* dispatcher is about to read the classification.
C5_Witness ==
    /\ pc = "Classified"
    /\ provider_resp = Some(Unclassified)
    /\ Val(st).classification = Some(faq)

\* The provider's response, trimmed and lower-cased.
Normalized ==
    Lower(Strip(Val(provider_resp)))

\* C6: a normalized response in the allowed set is the classification,
\* unchanged; otherwise the lower-cased query decides: "detail" or "item"
\* gives order_details (also when "order" occurs), else "order" gives
\* order_status, else faq.
C6_FallbackOrder ==
    pc = "Classified" =>
       LET q == Lower(Val(st).input)
           c == Val(Val(st).classification)
       IN IF Normalized \in allowed THEN c = Normalized
          ELSE /\ HasSub(detail, q) \/ HasSub(item, q) => c = order_details
               /\ ~HasSub(detail, q) /\ ~HasSub(item, q) /\ HasSub(order, q) =>
                     c = order_status
               /\ ~HasSub(detail, q) /\ ~HasSub(item, q) /\ ~HasSub(order, q) =>
                     c = faq
               /\ Val(st).input = QueryOrderItems => c = order_details
               /\ Val(st).input = QueryDetails => c = order_details
               /\ Val(st).input = QueryOrderWithId => c = order_status
               /\ Val(st).input = QueryPackage => c = faq

\* C6 witness: an out-of-set response to a query holding both "item" and
\* "order" was classified order_details.
C6_Witness ==
    /\ pc = "Classified"
    /\ Normalized \notin allowed
    /\ Val(st).input = QueryOrderItems
    /\ Val(st).classification = Some(order_details)

\* The text the dispatch stage produced.
DispatchOutput ==
    IF pc = "ToolCalled" THEN tool_local ELSE Val(st).tool_output

\* C8: once the try block ran, at most one lookup was called and it is the
\* one mapped to the classification; for a classification outside the five,
\* absent included, no lookup was called and the output is the fixed
\* could-not-classify string.
C8_DispatchTotal ==
    pc \in {"ToolCalled", "ToolDispatched"} =>
       LET c == Val(st).classification
       IN /\ Len(invoked) <= 1
          /\ c = Some(order_status) => invoked = <<"get_order_status">>
          /\ c = Some(order_details) => invoked = <<"get_order_details">>
          /\ c = Some(faq) => invoked = <<"search_faq">>
          /\ c = Some(refund_status) => invoked = <<"get_refund_status">>
          /\ c = Some(review) => invoked = <<"get_review">>
          /\ c \notin {Some(a) : a \in allowed} =>
                invoked = <<>> /\ DispatchOutput = Some(CouldNotClassify)

\* C8 witness: dispatch ran on an absent classification.
C8_Witness ==
    /\ pc = "ToolDispatched"
    /\ Val(st).classification = None
    /\ invoked = <<>>
    /\ Val(st).tool_output = Some(CouldNotClassify)

\* C9: an exception raised by a lookup becomes the tool output
\* "Error during tool dispatch: {message}"; it never leaves the dispatch
\* stage, and the call goes on through the later stages and returns.
C9_DispatchErrorCaught ==
    dispatch_exc # None =>
       /\ pc \in {"ToolCalled", "ToolDispatched", "Formatted", "Logged", "Done",
                  "Raised"}
       /\ pc = "ToolCalled" =>
             tool_local = Some(ErrorDuringToolDispatch \o Val(dispatch_exc))
       /\ pc \in {"ToolDispatched", "Formatted", "Logged"} =>
             Val(st).tool_output = Some(ErrorDuringToolDispatch \o Val(dispatch_exc))
       /\ pc = "Raised" => IsPrefix(<<"Start", "Classified", "ToolDispatched">>, stages)
       /\ pc = "Done" => stages = AllStages /\ ~Val(result).raised

\* C9 witness: a call whose lookup raised has returned.
C9_Witness ==
    /\ pc = "Done"
    /\ dispatch_exc # None
    /\ ~Val(result).raised

\* C10: outside the dispatch stage no session is open; inside it exactly
\* one is, the one created by this call and never handed out before.
C10_SessionScoped ==
    /\ pc \notin {"ToolAcquired", "ToolCalled"} =>
          open_sessions = {} /\ session = None
    /\ pc \in {"ToolAcquired", "ToolCalled"} =>
          /\ session = Some(sessions_created)
          /\ open_sessions = {sessions_created}
    /\ sessions_created <= calls

\* C10 witness: in a second call the lookup raised and the stage was left
\* with the session closed.
C10_Witness ==
    /\ pc = "ToolDispatched"
    /\ dispatch_exc # None
    /\ sessions_created = 2
    /\ open_sessions = {}

-----------------------------------------------------------------------------
(* Failures of the collaborators *)

\* The stages a call has completed when its answer has been formatted.
UpToFormatted ==
    <<"Start", "Classified", "ToolDispatched", "Formatted">>

\* The stages a call has completed when its lookup has been dispatched.
UpToToolDispatched ==
    <<"Start", "Classified", "ToolDispatched">>

\* The history holds the most recent DefaultLimit of the turns recorded.
HistoryIsWindowOfTurns ==
    History = LastN(turns, Min(Len(turns), DefaultLimit))

\* C11: a failure to append the interaction-log line is not raised to the
\* caller: no call whose answer has been formatted ends with an exception.
C11_LogFailureNotRaised ==
    (pc = "Raised") => (stages # UpToFormatted)

\* C12: a failure of the formatter is not raised to the caller: no call
\* whose lookup has been dispatched ends with an exception before its answer
\* is formatted.
C12_FormatterFailureNotRaised ==
    (pc = "Raised") => (stages # UpToToolDispatched)

\* C13: when the classification provider fails, the exception leaves
\* ask_agent: the keyword fallback is not applied (a classification is only
\* ever stored together with a provider response), no lookup, formatting,
\* log line or history record follows, and the caller gets no answer string.
C13_ClassifierFailurePropagates ==
    /\ (pc = "Classified") => (provider_resp # None)
    /\ (pc = "Raised" /\ stages = <<"Start">>) =>
          /\ Val(result).raised
          /\ Val(conversation_state).classification = None
          /\ Val(conversation_state).tool_output = None
          /\ Val(conversation_state).output = None
          /\ invoked = <<>>
          /\ dispatch_exc = None
          /\ open_sessions = {}
          /\ Len(log) = Len(turns)
          /\ HistoryIsWindowOfTurns

\* A second call whose classification fails after a first call completed.
C13_Witness ==
    /\ pc = "Raised"
    /\ stages = <<"Start">>
    /\ calls = 2
    /\ Len(turns) = 1
    /\ Val(result) = Raise(ProviderUnavailable)

-----------------------------------------------------------------------------
(* Two callers of ask_agent on the one thread id.  gradio_ask and cli_loop  *)
(* call ask_agent directly and ask_agent takes no lock, so a second call    *)
(* may start while the first is inside graph.invoke.  The second caller's   *)
(* graph.invoke is taken in one step.                                       *)

\* ask_agent up to the call of graph.invoke, for the second caller
other_ask_agent_start ==
    /\ other.pc \in {"Idle", "Done"}
    /\ calls < MaxConcurrentCalls
    /\ \E q \in Queries :
          /\ conversation_state' =
                IF conversation_state = None
                THEN Some(NewAgentState(q))
                ELSE Some(ResetTurn(Val(conversation_state), q))
          /\ other' = [pc |-> "Start", st |-> conversation_state',
                       user_query |-> Some(q), result |-> None]
    /\ calls' = calls + 1
    /\ UNCHANGED <<st, user_query, pc, provider, provider_resp, engine, session,
                   open_sessions, sessions_created, tool_local, dispatch_exc,
                   invoked, log, stages, result, limit, turns, store_used>>

\* tool_node's `output` for one classification, query and store answer
ToolOutput(classification, query, store) ==
    LET lookup == LookupFor(classification)
        outcome == CallLookup(Val(lookup), query, store)
    IN IF lookup = None THEN CouldNotClassify
       ELSE IF outcome.raised THEN DispatchError(outcome.text)
       ELSE outcome.text

\* graph.invoke of the second caller: the four nodes in order
other_graph_invoke ==
    /\ other.pc = "Start"
    /\ \E resp \in ProviderResponses(provider), store \in Stores,
          rephrased \in CompletionTexts :
          LET s0 == Val(other.st)
              cls == Some(classify_intent(s0.input, provider, resp))
              s1 == [s0 EXCEPT !.classification = cls,
                               !.tool_output = Some(ToolOutput(cls, s0.input, store)),
                               !.output = Some(rephrased)]
          IN /\ other' = [other EXCEPT !.pc = "Logged", !.st = Some(s1)]
             /\ log' = Append(log, <<s1.input, OrEmpty(s1.output)>>)
    /\ engine' = TRUE
    /\ sessions_created' = sessions_created + 1
    /\ UNCHANGED <<conversation_state, st, user_query, pc, provider,
                   provider_resp, session, open_sessions, tool_local,
                   dispatch_exc, invoked, stages, calls, result, limit, turns,
                   store_used>>

\* ask_agent after graph.invoke returned, for the second caller
other_ask_agent_done ==
    /\ other.pc = "Logged"
    /\ LET s == Val(other.st)
           q == Val(other.user_query)
       IN /\ conversation_state' = Some(add_turn(s, q, OrEmpty(s.output), DefaultLimit))
          /\ turns' = Append(turns, AgentTurn(q, OrEmpty(s.output)))
          /\ other' = [pc |-> "Done", st |-> None, user_query |-> None,
                       result |-> Some(Return(OrEmpty(s.output)))]
    /\ UNCHANGED <<st, user_query, pc, provider, provider_resp, engine, session,
                   open_sessions, sessions_created, tool_local, dispatch_exc,
                   invoked, log, stages, calls, result, limit, store_used>>

\* The calls of both callers together count up to MaxConcurrentCalls.
NextConcurrent ==
    \/ Next /\ calls' <= MaxConcurrentCalls
    \/ other_ask_agent_start
    \/ other_graph_invoke
    \/ other_ask_agent_done

SpecConcurrent ==
    Init /\ [][NextConcurrent]_vars

\* A call is between the entry of ask_agent and its return or exception.
InFlight(p) ==
    p \notin {"Idle", "Done", "Raised"}

\* C14: the turns of the thread are strictly sequential: a call of ask_agent
\* does not begin while another is in flight, so at most one turn touches
\* the shared state at a time, and no completed turn's record is missing
\* from the history window.
C14_TurnsSequential ==
    /\ ~(InFlight(pc) /\ InFlight(other.pc))
    /\ (conversation_state # None) => HistoryIsWindowOfTurns

\* The part of C14 about lost records alone.
NoTurnRecordLost ==
    (conversation_state # None) => HistoryIsWindowOfTurns

-----------------------------------------------------------------------------
(* The lookups of tools/business_tools.py called on their own: the query,   *)
(* the lookup and the answer of the stores are drawn from bounded sets.     *)

\* "aaaaaaaaaaaaaaaaaaaaaaaaaaaaaaaa"
OrderIdA ==
    <<"a", "a", "a", "a", "a", "a", "a", "a", "a", "a", "a", "a", "a", "a",
       "a", "a", "a", "a", "a", "a", "a", "a", "a", "a", "a", "a", "a", "a",
       "a", "a", "a", "a">>

\* "bbbbbbbbbbbbbbbbbbbbbbbbbbbbbbbb"
OrderIdB ==
    <<"b", "b", "b", "b", "b", "b", "b", "b", "b", "b", "b", "b", "b", "b",
       "b", "b", "b", "b", "b", "b", "b", "b", "b", "b", "b", "b", "b", "b",
       "b", "b", "b", "b">>

\* "0123456789abcdef0123456789abcdef"
OrderIdHex ==
    <<"0", "1", "2", "3", "4", "5", "6", "7", "8", "9", "a", "b", "c", "d",
       "e", "f", "0", "1", "2", "3", "4", "5", "6", "7", "8", "9", "a", "b",
       "c", "d", "e", "f">>

\* "0123456789abcdef0123456789abcdef01234567"
OrderIdLong ==
    <<"0", "1", "2", "3", "4", "5", "6", "7", "8", "9", "a", "b", "c", "d",
       "e", "f", "0", "1", "2", "3", "4", "5", "6", "7", "8", "9", "a", "b",
       "c", "d", "e", "f", "0", "1", "2", "3", "4", "5", "6", "7">>

\* ""
QueryEmpty ==
    <<>>

\* 31 hex characters: "order 0123456789abcdef0123456789abcde"
QueryShortRun ==
    <<"o", "r", "d", "e", "r", " ", "0", "1", "2", "3", "4", "5", "6", "7",
       "8", "9", "a", "b", "c", "d", "e", "f", "0", "1", "2", "3", "4", "5",
       "6", "7", "8", "9", "a", "b", "c", "d", "e">>

\* 31 hex characters and an upper-case one: "order 0123456789abcdef0123456789abcdeF"
QueryUpperHex ==
    <<"o", "r", "d", "e", "r", " ", "0", "1", "2", "3", "4", "5", "6", "7",
       "8", "9", "a", "b", "c", "d", "e", "f", "0", "1", "2", "3", "4", "5",
       "6", "7", "8", "9", "a", "b", "c", "d", "e", "F">>

\* a run that follows a word character: "order_0123456789abcdef0123456789abcdef"
QueryRunAfterWordChar ==
    <<"o", "r", "d", "e", "r", "_", "0", "1", "2", "3", "4", "5", "6", "7",
       "8", "9", "a", "b", "c", "d", "e", "f", "0", "1", "2", "3", "4", "5",
       "6", "7", "8", "9", "a", "b", "c", "d", "e", "f">>

\* a run that a word character follows: "0123456789abcdef0123456789abcdefg ?"
QueryRunBeforeWordChar ==
    <<"0", "1", "2", "3", "4", "5", "6", "7", "8", "9", "a", "b", "c", "d",
       "e", "f", "0", "1", "2", "3", "4", "5", "6", "7", "8", "9", "a", "b",
       "c", "d", "e", "f", "g", " ", "?">>

\* "compare bbbbbbbbbbbbbbbbbbbbbbbbbbbbbbbb and aaaaaaaaaaaaaaaaaaaaaaaaaaaaaaaa"
QueryTwoIds ==
    <<"c", "o", "m", "p", "a", "r", "e", " ", "b", "b", "b", "b", "b", "b",
       "b", "b", "b", "b", "b", "b", "b", "b", "b", "b", "b", "b", "b", "b",
       "b", "b", "b", "b", "b", "b", "b", "b", "b", "b", "b", "b", " ", "a",
       "n", "d", " ", "a", "a", "a", "a", "a", "a", "a", "a", "a", "a", "a",
       "a", "a", "a", "a", "a", "a", "a", "a", "a", "a", "a", "a", "a", "a",
       "a", "a", "a", "a", "a", "a", "a">>

\* a short run before the id: "abc 0123456789abcdef0123456789abcdef."
QueryShortThenId ==
    <<"a", "b", "c", " ", "0", "1", "2", "3", "4", "5", "6", "7", "8", "9",
       "a", "b", "c", "d", "e", "f", "0", "1", "2", "3", "4", "5", "6", "7",
       "8", "9", "a", "b", "c", "d", "e", "f", ".">>

\* a run of 40: "refund for 0123456789abcdef0123456789abcdef01234567!"
QueryLongRun ==
    <<"r", "e", "f", "u", "n", "d", " ", "f", "o", "r", " ", "0", "1", "2",
       "3", "4", "5", "6", "7", "8", "9", "a", "b", "c", "d", "e", "f", "0",
       "1", "2", "3", "4", "5", "6", "7", "8", "9", "a", "b", "c", "d", "e",
       "f", "0", "1", "2", "3", "4", "5", "6", "7", "!">>

LookupQueries ==
    {QueryOrderWithId, QueryPackage, QueryEmpty, QueryShortRun, QueryUpperHex,
     QueryRunAfterWordChar, QueryRunBeforeWordChar, QueryTwoIds,
     QueryShortThenId, QueryLongRun}

LookupNames ==
    {"get_order_status", "get_order_details", "search_faq", "get_refund_status",
     "get_review"}

\* payment_value of the rows of one order, in hundredths (None: NULL)
PaymentSets ==
    {<<>>, <<Some(0)>>, <<None>>, <<None, Some(0)>>, <<Some(4990)>>,
     <<Some(2000), Some(2990)>>, <<None, Some(5)>>, <<Some(123456), None>>}

\* "Arrived late"
ArrivedLate ==
    <<"A", "r", "r", "i", "v", "e", "d", " ", "l", "a", "t", "e">>

\* Rows of order_items: a product that does not resolve, one without a
\* translation of its category, one without a category.
ItemUnresolvedProduct ==
    [product_id |-> <<"p", "2">>, product |-> None,
     seller |-> Some([seller_id |-> <<"s", "1">>]), price |-> 500]

ItemUntranslated ==
    [product_id |-> <<"p", "3">>,
     product |-> Some([category_translation |-> None,
                       product_category_name |-> Some(<<"b", "r", "i", "n", "q", "u", "e", "d", "o", "s">>)]),
     seller |-> Some([seller_id |-> <<"s", "2">>]), price |-> 10000]

ItemNoCategory ==
    [product_id |-> <<"p", "4">>,
     product |-> Some([category_translation |-> None,
                       product_category_name |-> None]),
     seller |-> Some([seller_id |-> <<"s", "2">>]), price |-> 5]

\* A row of order_items whose seller does not resolve.
ItemUnresolvedSeller ==
    [product_id |-> <<"p", "5">>, product |-> Some(ProductTranslated),
     seller |-> None, price |-> 1990]

ItemSets ==
    {<<>>, <<ItemA>>, <<ItemUnresolvedProduct, ItemUntranslated, ItemNoCategory>>,
     <<ItemA, ItemUnresolvedSeller>>}

\* order_payments with the iteration order of the set of their types
PaymentRowSets ==
    {[rows |-> <<>>, types |-> <<>>],
     [rows |-> <<[payment_type |-> CreditCard, payment_value |-> Some(4990)]>>,
      types |-> <<CreditCard>>],
     [rows |-> <<[payment_type |-> CreditCard, payment_value |-> Some(2000)],
                 [payment_type |-> Voucher, payment_value |-> None],
                 [payment_type |-> CreditCard, payment_value |-> Some(2990)]>>,
      types |-> <<CreditCard, Voucher>>],
     [rows |-> <<[payment_type |-> CreditCard, payment_value |-> Some(2000)],
                 [payment_type |-> Voucher, payment_value |-> None],
                 [payment_type |-> CreditCard, payment_value |-> Some(2990)]>>,
      types |-> <<Voucher, CreditCard>>]}

ReviewSets ==
    {<<>>,
     <<[review_score |-> 5, review_comment_message |-> None]>>,
     <<[review_score |-> 1, review_comment_message |-> Some(ArrivedLate)],
       [review_score |-> 5, review_comment_message |-> None]>>}

\* Order rows with every combination of present and absent relations.
DetailOrders ==
    {[OrderSample EXCEPT !.customer = c, !.order_items = i,
                         !.order_payments = p.rows, !.payment_type_set = p.types,
                         !.order_reviews = r] :
        c \in {None, Some(CustomerA)}, i \in ItemSets, p \in PaymentRowSets,
        r \in ReviewSets}

DetailStores ==
    {[StoreSample EXCEPT !.order = Some(row)] : row \in DetailOrders}

LookupStores ==
    {StoreEmpty, StoreDown,
     [StoreEmpty EXCEPT !.up = FALSE],
     [StoreSample EXCEPT !.up = FALSE],
     [StoreSample EXCEPT !.vs_up = FALSE],
     [StoreEmpty EXCEPT !.docs = <<FaqDoc>>],
     [StoreSample EXCEPT !.review = None],
     [StoreSample EXCEPT !.order = None],
     [StoreSample EXCEPT !.review =
         Some([review_score |-> 1, review_comment_message |-> Some(ArrivedLate)])]}
        \cup {[StoreSample EXCEPT !.payments = p] : p \in PaymentSets}
        \cup DetailStores

InitLookup ==
    /\ \E q \in LookupQueries : st = Some(NewAgentState(q))
    /\ conversation_state = None
    /\ user_query = None
    /\ pc = "Idle"
    /\ provider = "openai"
    /\ provider_resp = None
    /\ engine = TRUE
    /\ session = None
    /\ open_sessions = {}
    /\ sessions_created = 0
    /\ tool_local = None
    /\ dispatch_exc = None
    /\ invoked = <<>>
    /\ log = <<>>
    /\ stages = <<>>
    /\ calls = 0
    /\ result = None
    /\ limit = DefaultLimit
    /\ turns = <<>>
    /\ store_used = None
    /\ other = OtherIdle

\* One call of a lookup with state.input; result holds what it returned or raised.
lookup_call ==
    /\ pc = "Idle"
    /\ \E name \in LookupNames, store \in LookupStores :
          /\ invoked' = <<name>>
          /\ store_used' = Some(store)
          /\ result' = Some(CallLookup(name, Val(st).input, store))
    /\ pc' = "Returned"
    /\ UNCHANGED <<conversation_state, st, user_query, provider, provider_resp,
                   engine, session, open_sessions, sessions_created, tool_local,
                   dispatch_exc, log, stages, calls, limit, turns, other>>

NextLookup ==
    lookup_call

SpecLookup ==
    InitLookup /\ [][NextLookup]_vars

\* The order id a reader of the query finds first, written out per query.
ExpectedOrderId(q) ==
    CASE q = QueryOrderWithId -> Some(OrderIdA)
      [] q = QueryTwoIds -> Some(OrderIdB)
      [] q = QueryShortThenId -> Some(OrderIdHex)
      [] q = QueryLongRun -> Some(OrderIdLong)
      [] OTHER -> None

IdLookups ==
    {"get_order_status", "get_order_details", "get_refund_status", "get_review"}

\* The lookup just called, its query and what the stores answered.
Called(name) ==
    pc = "Returned" /\ invoked = <<name>>

\* The texts the lookups are to return, written out.
NoOrderText(id) ==
    <<"N", "o", " ", "o", "r", "d", "e", "r", " ", "f", "o", "u", "n", "d",
       " ", "f", "o", "r", " ", "I", "D", ":", " ">> \o id \o <<".">>

NoReviewText(id) ==
    <<"N", "o", " ", "r", "e", "v", "i", "e", "w", " ", "f", "o", "u", "n",
       "d", " ", "f", "o", "r", " ", "o", "r", "d", "e", "r", " ">> \o id \o <<".">>

NoPaymentText(id) ==
    <<"N", "o", " ", "p", "a", "y", "m", "e", "n", "t", " ", "i", "n", "f",
       "o", " ", "f", "o", "r", " ", "o", "r", "d", "e", "r", " ">> \o id \o <<".">>

RefundedText(id) ==
    <<"O", "r", "d", "e", "r", " ">> \o id \o <<" ", "w", "a", "s", " ", "f", "u", "l", "l", "y", " ", "r", "e", "f",
       "u", "n", "d", "e", "d", ".">>

PaidText(id, total) ==
    <<"O", "r", "d", "e", "r", " ">> \o id \o <<" ", "w", "a", "s", " ", "p", "a", "i", "d", " ">> \o total \o <<",", " ", "r", "e", "f", "u", "n", "d", " ", "s", "t", "a", "t", "u",
       "s", " ", "u", "n", "k", "n", "o", "w", "n", ".">>

NoFaqText ==
    <<"N", "o", " ", "r", "e", "l", "e", "v", "a", "n", "t", " ", "F", "A",
       "Q", " ", "f", "o", "u", "n", "d", ".">>

\* "No order found for ID: aaaaaaaaaaaaaaaaaaaaaaaaaaaaaaaa."
NoOrderTextA ==
    <<"N", "o", " ", "o", "r", "d", "e", "r", " ", "f", "o", "u", "n", "d",
       " ", "f", "o", "r", " ", "I", "D", ":", " ", "a", "a", "a", "a", "a",
       "a", "a", "a", "a", "a", "a", "a", "a", "a", "a", "a", "a", "a", "a",
       "a", "a", "a", "a", "a", "a", "a", "a", "a", "a", "a", "a", "a", ".">>

\* "Order aaaaaaaaaaaaaaaaaaaaaaaaaaaaaaaa was paid 0.05, refund status unknown."
PaidFiveCentsTextA ==
    <<"O", "r", "d", "e", "r", " ", "a", "a", "a", "a", "a", "a", "a", "a",
       "a", "a", "a", "a", "a", "a", "a", "a", "a", "a", "a", "a", "a", "a",
       "a", "a", "a", "a", "a", "a", "a", "a", "a", "a", " ", "w", "a", "s",
       " ", "p", "a", "i", "d", " ", "0", ".", "0", "5", ",", " ", "r", "e",
       "f", "u", "n", "d", " ", "s", "t", "a", "t", "u", "s", " ", "u", "n",
       "k", "n", "o", "w", "n", ".">>

\* C15: for a query without a word-bounded run of 32 or more lower-case
\* hex characters each of the four id lookups returns the validation string,
\* whatever the store would answer and also when a query on it would raise;
\* for a query with such runs each of them works with the first one.
C15_ValidationWithoutStore ==
    \A name \in IdLookups :
        Called(name) =>
            LET q == Val(st).input
                id == ExpectedOrderId(q)
                out == Val(result)
            IN IF id = None
               THEN out = Return(PleaseProvideOrderId)
               ELSE /\ out # Return(PleaseProvideOrderId)
                    /\ ~Val(store_used).up => out.raised
                    /\ ~out.raised => HasSub(Val(id), out.text)
                    /\ q = QueryTwoIds => ~HasSub(OrderIdA, out.text)

\* A run after a word character is no order id, and the store that would
\* raise on any query is not asked.
C15_Witness ==
    /\ Called("get_review")
    /\ Val(st).input = QueryRunAfterWordChar
    /\ store_used = Some(StoreDown)
    /\ result = Some(Return(PleaseProvideOrderId))

\* C16: when the order id parses and the store holds no matching row, the
\* lookup returns its not-found message and raises nothing: "No order found
\* for ID: {id}." for get_order_status and get_order_details, "No review
\* found for order {id}." for get_review, "No payment info for order {id}."
\* for get_refund_status.
C16_NotFoundMessages ==
    LET q == Val(st).input
        id == Val(ExpectedOrderId(q))
        rows == Val(store_used)
        parsed == ExpectedOrderId(q) # None /\ rows.up
    IN /\ Called("get_order_status") /\ parsed /\ rows.order = None =>
             result = Some(Return(NoOrderText(id)))
       /\ Called("get_order_details") /\ parsed /\ rows.order = None =>
             result = Some(Return(NoOrderText(id)))
       /\ Called("get_review") /\ parsed /\ rows.review = None =>
             result = Some(Return(NoReviewText(id)))
       /\ Called("get_refund_status") /\ parsed /\ rows.payments = <<>> =>
             result = Some(Return(NoPaymentText(id)))

\* The order summary asked for an order the store does not hold.
C16_Witness ==
    /\ Called("get_order_details")
    /\ Val(st).input = QueryOrderWithId
    /\ store_used = Some(StoreEmpty)
    /\ result = Some(Return(NoOrderTextA))

\* The total of each payment set as f"{total:.2f}" prints it.
TotalPaidText(payments) ==
    CASE payments \in {<<Some(4990)>>, <<Some(2000), Some(2990)>>} -> <<"4", "9", ".", "9", "0">>
      [] payments = <<None, Some(5)>> -> <<"0", ".", "0", "5">>
      [] payments = <<Some(123456), None>> -> <<"1", "2", "3", "4", ".", "5", "6">>

\* C17: get_refund_status adds up the payment amounts of the order with a
\* null amount counted as zero and returns "No payment info for order {id}."
\* for no payments, "Order {id} was fully refunded." for payments adding up
\* to zero, and "Order {id} was paid {total:.2f}, refund status unknown."
\* otherwise.
C17_RefundThreeResults ==
    LET q == Val(st).input
        id == Val(ExpectedOrderId(q))
        payments == Val(store_used).payments
    IN Called("get_refund_status") /\ ExpectedOrderId(q) # None /\ Val(store_used).up =>
          result = Some(Return(
              IF payments = <<>>
              THEN NoPaymentText(id)
              ELSE IF payments \in {<<Some(0)>>, <<None>>, <<None, Some(0)>>}
              THEN RefundedText(id)
              ELSE PaidText(id, TotalPaidText(payments))))

\* A null amount beside 0.05 paid.
C17_Witness ==
    /\ Called("get_refund_status")
    /\ Val(st).input = QueryOrderWithId
    /\ Val(store_used).payments = <<None, Some(5)>>
    /\ result = Some(Return(PaidFiveCentsTextA))

\* C18: the FAQ lookup extracts no order id and asks the relational store
\* nothing: its result, and tool_node's output for classification faq, is
\* the text of the documents found, or "No relevant FAQ found." when none
\* is found, whether or not the query holds an order id and whether or not
\* a query on the relational store would succeed.
C18_FaqWithoutOrderId ==
    LET q == Val(st).input
        rows == Val(store_used)
        text == IF rows.docs = <<>> THEN NoFaqText ELSE rows.docs[1]
    IN Called("search_faq") /\ rows.vs_up /\ Len(rows.docs) <= 1 =>
          /\ result = Some(Return(text))
          /\ ToolOutput(Some(faq), q, rows) = text

\* A query without an order id, the relational store failing, no document found.
C18_Witness ==
    /\ Called("search_faq")
    /\ Val(st).input = QueryPackage
    /\ store_used = Some([StoreEmpty EXCEPT !.up = FALSE])
    /\ result = Some(Return(NoRelevantFaq))

-----------------------------------------------------------------------------
(* AgentState.add_turn called with a limit chosen anew at every call, so    *)
(* that the history it is given may be longer than the limit.               *)

LimitValues ==
    -1..MaxLimit

add_turn_any_limit ==
    /\ Len(turns) < MaxAdds
    /\ \E lim \in LimitValues, user \in {QueryDetails, QueryPackage},
          agent \in CompletionTexts :
          /\ conversation_state' =
                Some(add_turn(Val(conversation_state), user, agent, lim))
          /\ turns' = Append(turns, AgentTurn(user, agent))
          /\ limit' = lim
    /\ UNCHANGED <<st, user_query, pc, provider, provider_resp, engine, session,
                   open_sessions, sessions_created, tool_local, dispatch_exc,
                   invoked, log, stages, calls, result, store_used, other>>

NextRoundTrip ==
    add_turn_any_limit

SpecRoundTrip ==
    InitHistory /\ [][NextRoundTrip]_vars

\* s is the last Len(s) elements of t
IsSuffix(s, t) ==
    Len(s) <= Len(t) /\ s = SubSeq(t, Len(t) - Len(s) + 1, Len(t))

\* C19: right after add_turn(user, agent, limit), whatever the limit and
\* the history before, the last element of the history is the pair supplied
\* and the elements before it are the most recent entries of the previous
\* history in their order: all of them without a positive limit, as many as
\* the limit leaves room for with one.
C19_AddTurnRoundTrip ==
    [][LET before == History
           after == History'
           n == Len(after)
       IN /\ n >= 1
          /\ after[n] = turns'[Len(turns')]
          /\ IsSuffix(SubSeq(after, 1, n - 1), before)
          /\ n = IF limit' > 0 THEN Min(Len(before) + 1, limit')
                 ELSE Len(before) + 1]_vars

\* Four turns added, the last with limit 2: the two most recent are kept.
C19_Witness ==
    /\ limit = 2
    /\ Len(turns) = 4
    /\ turns[3] # turns[4]
    /\ History = <<turns[3], turns[4]>>

-----------------------------------------------------------------------------
(* The end of a turn *)

\* C20: the step to Done appends one record {user: the query of this call,
\* agent: state.output} to the history and returns state.output, after the
\* one log line with the same pair was written; no other step changes the
\* history, and no step writes a log line except the one into Logged.
C20_DoneAppendsOneRecord ==
    [][/\ pc' = "Done" /\ pc # "Done" =>
             LET q == Val(user_query)
                 out == OrEmpty(Val(st).output)
                 after == History'
                 n == Len(after)
             IN /\ n >= 1
                /\ after[n] = [user |-> q, agent |-> out]
                /\ IsSuffix(SubSeq(after, 1, n - 1), Val(st).history)
                /\ n = Min(Len(Val(st).history) + 1, DefaultLimit)
                /\ Val(st).history = History
                /\ Val(conversation_state').input = q
                /\ result' = Some(Return(out))
                /\ log' = log
                /\ log[Len(log)] = <<q, out>>
                /\ Len(log) = Len(turns')
       /\ ~(pc' = "Done" /\ pc # "Done") /\ conversation_state # None =>
             History' = History
       /\ log' # log =>
             /\ pc' = "Logged"
             /\ Len(log') = Len(log) + 1]_vars

\* The second call completed: its record is the last of two, its answer was
\* returned and its line is the last of the log.
C20_Witness ==
    /\ pc = "Done"
    /\ calls = 2
    /\ Len(History) = 2
    /\ History[2] = [user |-> QueryOrderWithId, agent |-> HappyToHelp]
    /\ History[1].user = QueryPackage
    /\ result = Some(Return(HappyToHelp))
    /\ log[2] = <<QueryOrderWithId, HappyToHelp>>
    /\ Len(log) = 2

-----------------------------------------------------------------------------
(* What a turn reads and what it writes *)

\* C21: the fields a turn produces are functions of the query and of the
\* collaborators' responses alone, not of the history or context left by
\* earlier turns: classification is classify_intent of the input and the
\* provider's response, tool_node's output is the dispatch of that
\* classification and input on the stores' answer, and output is the
\* completion provider's response.
C21_AnswerIndependentOfHistory ==
    /\ pc = "Classified" =>
          Val(st).classification =
             Some(classify_intent(Val(st).input, provider, Val(provider_resp)))
    /\ pc = "ToolCalled" =>
          /\ (store_used = None) = (LookupFor(Val(st).classification) = None)
          /\ tool_local =
                Some(ToolOutput(Val(st).classification, Val(st).input,
                                IF store_used = None THEN StoreEmpty
                                ELSE Val(store_used)))
    /\ pc = "Formatted" => Val(st).output = provider_resp

\* The third turn asks what the first asked, after a different second turn.
C21_Witness ==
    /\ pc = "Formatted"
    /\ Len(Val(st).history) = 2
    /\ Val(st).history[1].user = Val(st).input
    /\ Val(st).history[2].user # Val(st).input
    /\ Val(st).output = provider_resp

\* C22: each stage writes its own field and nothing else: perception_node
\* only classification, tool_node only tool_output (acquiring the session
\* and calling the lookup change nothing of the state), answer_node only
\* output, learning_node nothing; input, history and context stay as they
\* were from Start until add_turn at Done, which changes history alone.
C22_StagesWriteOwnField ==
    [][LET s == Val(st)
           s2 == Val(st')
       IN /\ pc = "Start" /\ pc' = "Classified" =>
                s2 = [s EXCEPT !.classification = s2.classification]
          /\ pc = "Classified" /\ pc' = "ToolAcquired" => st' = st
          /\ pc = "ToolAcquired" /\ pc' = "ToolCalled" => st' = st
          /\ pc = "ToolCalled" /\ pc' = "ToolDispatched" =>
                s2 = [s EXCEPT !.tool_output = s2.tool_output]
          /\ pc = "ToolDispatched" /\ pc' = "Formatted" =>
                s2 = [s EXCEPT !.output = s2.output]
          /\ pc = "Formatted" /\ pc' = "Logged" => st' = st
          /\ InFlight(pc) /\ InFlight(pc') =>
                /\ s2.input = s.input
                /\ s2.history = s.history
                /\ s2.context = s.context
                /\ conversation_state' = conversation_state
          /\ pc = "Logged" /\ pc' = "Done" =>
                Val(conversation_state') =
                   [s EXCEPT !.history = Val(conversation_state').history]]_vars

\* A turn with a history behind it has gone through every stage: its fields
\* are all set and its input is the query of the record appended.
C22_Witness ==
    /\ pc = "Done"
    /\ calls = 2
    /\ Len(History) = 2
    /\ Val(conversation_state).input = History[2].user
    /\ Val(conversation_state).classification = Some(order_status)
    /\ Val(conversation_state).tool_output # None
    /\ Val(conversation_state).output = Some(HappyToHelp)

-----------------------------------------------------------------------------
(* The order summary *)

\* The lines of each section as the summary is to show them, written out.
ExpectedBaseLines ==
    <<<<"O", "r", "d", "e", "r", " ", "a", "a", "a", "a", "a", "a", "a", "a",
       "a", "a", "a", "a", "a", "a", "a", "a", "a", "a", "a", "a", "a", "a",
       "a", "a", "a", "a", "a", "a", "a", "a", "a", "a", " ", "s", "t", "a",
       "t", "u", "s", ":", " ", "d", "e", "l", "i", "v", "e", "r", "e", "d">>,
      <<"P", "u", "r", "c", "h", "a", "s", "e", "d", ":", " ", "2", "0", "1",
       "8", "-", "0", "1", "-", "0", "2", " ", "1", "0", ":", "0", "0", ":",
       "0", "0">>,
      <<"E", "s", "t", "i", "m", "a", "t", "e", "d", " ", "d", "e", "l", "i",
       "v", "e", "r", "y", ":", " ", "2", "0", "1", "8", "-", "0", "1", "-",
       "2", "0", " ", "0", "0", ":", "0", "0", ":", "0", "0">>>>

ExpectedCustomerLines(customer) ==
    IF customer = None THEN <<>>
    ELSE <<<<"C", "u", "s", "t", "o", "m", "e", "r", " ", "c", "1", " ", "i", "n",
       " ", "s", "a", "o", " ", "p", "a", "u", "l", "o", ",", " ", "S", "P">>>>

ExpectedItemLines(items) ==
    CASE items = <<>> -> <<>>
      [] items = <<ItemA>> ->
           <<<<"I", "t", "e", "m", "s", ":">>,
             <<" ", " ", "-", " ", "p", "1", " ", "(", "t", "o", "y", "s", ")", " ",
       "f", "r", "o", "m", " ", "s", "1", " ", "p", "r", "i", "c", "e", " ",
       "1", "9", ".", "9", "0">>>>
      [] items = <<ItemUnresolvedProduct, ItemUntranslated, ItemNoCategory>> ->
           <<<<"I", "t", "e", "m", "s", ":">>,
             <<" ", " ", "-", " ", "p", "2", " ", "(", "u", "n", "k", "n", "o", "w",
       "n", " ", "c", "a", "t", "e", "g", "o", "r", "y", ")", " ", "f", "r",
       "o", "m", " ", "s", "1", " ", "p", "r", "i", "c", "e", " ", "5", ".",
       "0", "0">>,
             <<" ", " ", "-", " ", "p", "3", " ", "(", "b", "r", "i", "n", "q", "u",
       "e", "d", "o", "s", ")", " ", "f", "r", "o", "m", " ", "s", "2", " ",
       "p", "r", "i", "c", "e", " ", "1", "0", "0", ".", "0", "0">>,
             <<" ", " ", "-", " ", "p", "4", " ", "(", "u", "n", "k", "n", "o", "w",
       "n", " ", "c", "a", "t", "e", "g", "o", "r", "y", ")", " ", "f", "r",
       "o", "m", " ", "s", "2", " ", "p", "r", "i", "c", "e", " ", "0", ".",
       "0", "5">>>>

ExpectedPaymentLines(rows, types) ==
    CASE rows = <<>> -> <<>>
      [] types = <<CreditCard>> -> <<<<"P", "a", "y", "m", "e", "n", "t", "s", ":", " ", "4", "9", ".", "9",
       "0", " ", "v", "i", "a", " ", "c", "r", "e", "d", "i", "t", "_", "c",
       "a", "r", "d">>>>
      [] types = <<CreditCard, Voucher>> ->
           <<<<"P", "a", "y", "m", "e", "n", "t", "s", ":", " ", "4", "9", ".", "9",
       "0", " ", "v", "i", "a", " ", "c", "r", "e", "d", "i", "t", "_", "c",
       "a", "r", "d", ",", " ", "v", "o", "u", "c", "h", "e", "r">>>>
      [] types = <<Voucher, CreditCard>> ->
           <<<<"P", "a", "y", "m", "e", "n", "t", "s", ":", " ", "4", "9", ".", "9",
       "0", " ", "v", "i", "a", " ", "v", "o", "u", "c", "h", "e", "r", ",",
       " ", "c", "r", "e", "d", "i", "t", "_", "c", "a", "r", "d">>>>

ExpectedReviewLines(reviews) ==
    CASE reviews = <<>> -> <<>>
      [] Len(reviews) = 1 -> <<<<"R", "e", "v", "i", "e", "w", ":", " ", "5", " ", "-", " ", "N", "o",
       " ", "c", "o", "m", "m", "e", "n", "t", ".">>>>
      [] Len(reviews) = 2 -> <<<<"R", "e", "v", "i", "e", "w", ":", " ", "1", " ", "-", " ", "A", "r",
       "r", "i", "v", "e", "d", " ", "l", "a", "t", "e">>>>

\* "\n".join(lines)
RECURSIVE JoinLines(_)
JoinLines(lines) ==
    IF Len(lines) = 1 THEN Head(lines)
    ELSE Head(lines) \o <<"\n">> \o JoinLines(Tail(lines))

ExpectedDetails(row) ==
    JoinLines(ExpectedBaseLines
              \o ExpectedCustomerLines(row.customer)
              \o ExpectedItemLines(row.order_items)
              \o ExpectedPaymentLines(row.order_payments, row.payment_type_set)
              \o ExpectedReviewLines(row.order_reviews))

\* The sellers of all line items resolve.
SellersResolve(row) ==
    \A i \in 1..Len(row.order_items) : row.order_items[i].seller # None

\* get_order_details was called for the order aaaa... and the store holds it.
DetailsOfExistingOrder ==
    /\ Called("get_order_details")
    /\ Val(st).input = QueryOrderWithId
    /\ Val(store_used).up
    /\ Val(store_used).order # None

\* C23: for an existing order get_order_details returns the base block, the
\* customer line, the Items header with one line per line item, the
\* payments line and the review line in this order, a section being left
\* out exactly when its relation has no rows, the review line showing the
\* first review only and an item without a product showing "unknown
\* category".
C23_DetailSections ==
    DetailsOfExistingOrder =>
        /\ ~Val(result).raised
        /\ SellersResolve(Val(Val(store_used).order)) =>
               Val(result).text = ExpectedDetails(Val(Val(store_used).order))

\* The part of C23 that holds: the summary of an order whose line items all
\* have a seller.
DetailSectionsWhenSellersResolve ==
    DetailsOfExistingOrder /\ SellersResolve(Val(Val(store_used).order)) =>
        result = Some(Return(ExpectedDetails(Val(Val(store_used).order))))

\* Every section present, three items, two reviews.
DetailsAllSections ==
    /\ DetailsOfExistingOrder
    /\ Val(Val(store_used).order).customer # None
    /\ Len(Val(Val(store_used).order).order_items) = 3
    /\ Val(Val(store_used).order).payment_type_set = <<Voucher, CreditCard>>
    /\ Len(Val(Val(store_used).order).order_reviews) = 2
    /\ ~Val(result).raised

-----------------------------------------------------------------------------
(* After an exception *)

\* C24: a call that ends with an exception leaves the state, the history
\* and the log as they were, the history being what it was before the call;
\* the state exists afterwards, also when that call was the first, and the
\* next call reuses it: it keeps history and context and resets input,
\* classification, tool_output and output.
C24_AbortedTurnKeepsHistory ==
    [][/\ pc' = "Raised" /\ pc # "Raised" =>
             /\ conversation_state' = conversation_state
             /\ turns' = turns
             /\ log' = log
       /\ pc' = "Start" /\ conversation_state # None => History' = History
       /\ pc = "Raised" =>
             /\ conversation_state # None
             /\ HistoryIsWindowOfTurns
       /\ pc = "Raised" /\ pc' = "Start" =>
             /\ Val(conversation_state') =
                   [Val(conversation_state) EXCEPT
                       !.input = Val(user_query'), !.classification = None,
                       !.tool_output = None, !.output = None]
             /\ st' = conversation_state']_vars

\* The first call was aborted and the second completed: its record is the
\* only one in the history.
C24_Witness ==
    /\ pc = "Done"
    /\ calls = 2
    /\ Len(turns) = 1
    /\ History = <<turns[1]>>
    /\ Len(log) = 1

\* C25: tool_node holds an open session whenever its try block runs,
\* whatever the classification; an exception while the engine is created
\* is not turned into "Error during tool dispatch: ..." but ends the call:
\* no lookup was called, no output was set, no session is open and the
\* history has no new record.
C25_AcquireOutsideTry ==
    /\ pc \in {"ToolAcquired", "ToolCalled"} =>
          /\ engine
          /\ session # None
          /\ Val(session) \in open_sessions
    /\ pc = "Raised" /\ stages = <<"Start", "Classified">> =>
          /\ result = Some(Raise(UnableToOpenDatabase))
          /\ dispatch_exc = None
          /\ tool_local = None
          /\ invoked = <<>>
          /\ session = None
          /\ open_sessions = {}
          /\ Val(conversation_state).tool_output = None
          /\ HistoryIsWindowOfTurns

\* The engine could not be created in a turn classified faq.
C25_Witness ==
    /\ pc = "Raised"
    /\ stages = <<"Start", "Classified">>
    /\ Val(conversation_state).classification = Some(faq)
    /\ result = Some(Raise(UnableToOpenDatabase))
    /\ sessions_created = 0

=============================================================================
